---- MODULE Spec2Model ----
(***************************************************************************)
(* The Generator component of csv-sql-generator: the streaming NEM12 row   *)
(* interpreter inside handleFileChange (the chunk / complete / error       *)
(* callbacks handed to Papa.parse) and the React state it drives.          *)
(*                                                                         *)
(* A JavaScript string is a sequence of one-character strings, so that     *)
(* slice, padStart, parseInt and parseFloat are computed character by      *)
(* character.  The value undefined (an absent row field) is the one-element *)
(* sequence Undefined, which is no sequence of characters.                 *)
(***************************************************************************)
EXTENDS Integers, Sequences, FiniteSets, TLC

VARIABLES records, loading, completed, error, file, runs, last

vars == <<records, loading, completed, error, file, runs, last>>

----------------------------------------------------------------------------
(* Bounds of the model. *)

\* rows in one batch handed to the chunk callback
MaxBatch == 2

\* records the results list may hold (chunk callbacks that would exceed
\* it are not explored)
MaxRecords == 4

\* parse runs started (clicks on Generate with a file selected)
MaxRuns == 2

----------------------------------------------------------------------------
(* JavaScript values *)

Undefined == <<"undefined">>

Null == <<"null">>

Digits == {"0", "1", "2", "3", "4", "5", "6", "7", "8", "9"}

\* StrWhiteSpaceChar of the ECMAScript grammar, as far as the inputs use it
WhiteSpace == {" ", "\t", "\n", "\r"}

DigitVal(c) ==
  CASE c = "0" -> 0 [] c = "1" -> 1 [] c = "2" -> 2 [] c = "3" -> 3
    [] c = "4" -> 4 [] c = "5" -> 5 [] c = "6" -> 6 [] c = "7" -> 7
    [] c = "8" -> 8 [] c = "9" -> 9

DigitChar(d) ==
  CASE d = 0 -> "0" [] d = 1 -> "1" [] d = 2 -> "2" [] d = 3 -> "3"
    [] d = 4 -> "4" [] d = 5 -> "5" [] d = 6 -> "6" [] d = 7 -> "7"
    [] d = 8 -> "8" [] d = 9 -> "9"

\* ToString applied to a row field: undefined becomes the text "undefined"
ToStr(s) ==
  IF s = Undefined THEN <<"u", "n", "d", "e", "f", "i", "n", "e", "d">> ELSE s

\* ToBoolean of a string or undefined
Truthy(s) == s # Undefined /\ s # <<>>

\* row[i], 0-based; undefined past the end of the row
At(row, i) == IF i + 1 <= Len(row) THEN row[i + 1] ELSE Undefined

Min(a, b) == IF a <= b THEN a ELSE b

\* String.prototype.slice(a, b) for 0 <= a <= b: the positions clamp to the length
Slice(s, a, b) == SubSeq(s, Min(a, Len(s)) + 1, Min(b, Len(s)))

\* the suffix of s from 1-based position i
From(s, i) == SubSeq(s, i, Len(s))

RECURSIVE SkipWhiteSpace(_)
SkipWhiteSpace(s) ==
  IF s # <<>> /\ Head(s) \in WhiteSpace THEN SkipWhiteSpace(Tail(s)) ELSE s

\* the longest prefix of s made of decimal digits
RECURSIVE DigitRun(_)
DigitRun(s) ==
  IF s # <<>> /\ Head(s) \in Digits THEN <<Head(s)>> \o DigitRun(Tail(s)) ELSE <<>>

\* the natural number a sequence of digits denotes (0 for none)
RECURSIVE DigitsToNat(_)
DigitsToNat(ds) ==
  IF ds = <<>> THEN 0
  ELSE 10 * DigitsToNat(SubSeq(ds, 1, Len(ds) - 1)) + DigitVal(ds[Len(ds)])

RECURSIVE NatToStr(_)
NatToStr(n) ==
  IF n < 10 THEN <<DigitChar(n)>> ELSE NatToStr(n \div 10) \o <<DigitChar(n % 10)>>

\* String(n) for an integer n (String(-0) is "0")
NumToStr(n) == IF n < 0 THEN <<"-">> \o NatToStr(-n) ELSE NatToStr(n)

\* s.padStart(2, "0")
PadStart2(s) ==
  IF Len(s) >= 2 THEN s ELSE IF Len(s) = 1 THEN <<"0">> \o s ELSE <<"0", "0">>

\* Math.floor(a / 60) for an integer a
FloorDiv60(a) == a \div 60

\* a % 60 in JavaScript: the remainder takes the sign of the dividend
Rem60(a) == IF a >= 0 THEN a % 60 ELSE -((-a) % 60)

StartsWith(s, p) == Len(s) >= Len(p) /\ SubSeq(s, 1, Len(p)) = p

HasSign(s) == s # <<>> /\ Head(s) \in {"+", "-"}

----------------------------------------------------------------------------
(* parseInt(s, 10): NaN, or an integer.  intervalLength holds its result. *)

NaNInt == [nan |-> TRUE, val |-> 0]

IntOf(n) == [nan |-> FALSE, val |-> n]

parseInt(s) ==
  LET t == SkipWhiteSpace(ToStr(s))
      neg == t # <<>> /\ Head(t) = "-"
      u == IF HasSign(t) THEN Tail(t) ELSE t
      ds == DigitRun(u)
  IN IF ds = <<>> THEN NaNInt
     ELSE IntOf(IF neg THEN -DigitsToNat(ds) ELSE DigitsToNat(ds))

\* ToBoolean of a number: NaN and 0 are false, every other number is true
TruthyNum(n) == ~n.nan /\ n.val # 0

----------------------------------------------------------------------------
(* parseFloat(s): NaN, an infinity, or a finite number.  A finite number   *)
(* is kept as the exact decimal (-1)^neg * mant * 10^exp, with mant not    *)
(* divisible by 10 (0 is mant 0, exp 0), so equal numbers are equal        *)
(* records; the rounding of a decimal to the nearest double is not         *)
(* modelled, its overflow to an infinity and its underflow to 0 are.       *)

NaN == [kind |-> "NaN", neg |-> FALSE, mant |-> 0, exp |-> 0]

Infinite(neg) == [kind |-> "Infinity", neg |-> neg, mant |-> 0, exp |-> 0]

RECURSIVE Pow10(_)
Pow10(n) == IF n <= 0 THEN 1 ELSE 10 * Pow10(n - 1)

RECURSIVE StripZeros(_, _)
StripZeros(mant, exp) ==
  IF mant = 0 THEN <<0, 0>>
  ELSE IF mant % 10 = 0 THEN StripZeros(mant \div 10, exp + 1)
  ELSE <<mant, exp>>

\* the decimal exponent of the leading digit of mant * 10^exp, mant > 0
Order(mant, exp) == Len(NatToStr(mant)) + exp - 1

\* mant * 10^exp, mant > 0, exceeds Number.MAX_VALUE = 1.797693134...e308
\* (mant has at most 9 digits)
Overflows(mant, exp) ==
  \/ Order(mant, exp) > 308
  \/ /\ Order(mant, exp) = 308
     /\ mant * Pow10(9 - Len(NatToStr(mant))) > 179769313

\* mant * 10^exp, mant > 0, is below the smallest denormal and rounds to 0
Underflows(mant, exp) == Order(mant, exp) < -324

Finite(neg, mant, exp) ==
  LET n == StripZeros(mant, exp)
  IN IF n[1] > 0 /\ Overflows(n[1], n[2]) THEN Infinite(neg)
     ELSE IF n[1] > 0 /\ Underflows(n[1], n[2])
       THEN [kind |-> "finite", neg |-> neg, mant |-> 0, exp |-> 0]
     ELSE [kind |-> "finite", neg |-> neg, mant |-> n[1], exp |-> n[2]]

InfinityText == <<"I", "n", "f", "i", "n", "i", "t", "y">>

\* the value of the ExponentPart that s starts with, 0 when it starts with none
ExponentOf(s) ==
  IF s # <<>> /\ Head(s) \in {"e", "E"}
  THEN LET t == Tail(s)
           u == IF HasSign(t) THEN Tail(t) ELSE t
           ds == DigitRun(u)
       IN IF ds = <<>> THEN 0
          ELSE IF Head(t) = "-" THEN -DigitsToNat(ds) ELSE DigitsToNat(ds)
  ELSE 0

\* parseFloat: the longest prefix of the trimmed text that is a
\* StrDecimalLiteral, NaN when there is none
parseFloat(s) ==
  LET t == SkipWhiteSpace(ToStr(s))
      neg == t # <<>> /\ Head(t) = "-"
      u == IF HasSign(t) THEN Tail(t) ELSE t
      int == DigitRun(u)
      afterInt == From(u, Len(int) + 1)
      hasDot == afterInt # <<>> /\ Head(afterInt) = "."
      frac == IF hasDot THEN DigitRun(Tail(afterInt)) ELSE <<>>
      afterFrac == IF hasDot THEN From(afterInt, Len(frac) + 2) ELSE afterInt
  IN IF StartsWith(u, InfinityText) THEN Infinite(neg)
     ELSE IF int = <<>> /\ frac = <<>> THEN NaN
     ELSE Finite(neg, DigitsToNat(int \o frac), ExponentOf(afterFrac) - Len(frac))

\* isNaN(x) for a number x
isNaN(x) == x.kind = "NaN"

----------------------------------------------------------------------------
(* The chunk callback: one row, then a batch of rows *)

T200 == <<"2", "0", "0">>

T300 == <<"3", "0", "0">>

\* the ParserContext of a run at its start: let currentNMI = "", intervalLength = 0
EmptyContext == [currentNMI |-> <<>>, intervalLength |-> IntOf(0)]

\* `${dateStr.slice(0, 4)}-${dateStr.slice(4, 6)}-${dateStr.slice(6, 8)}`
DatePrefix(dateStr) ==
  Slice(dateStr, 0, 4) \o <<"-">> \o Slice(dateStr, 4, 6) \o <<"-">>
    \o Slice(dateStr, 6, 8)

\* Timestamp with the offset counted from row index 1, the date field
TimestampFromDateField(datePrefix, i, L) ==
  LET totalMinutesOffset == (i - 1) * L
      intervalHours == FloorDiv60(totalMinutesOffset)
      intervalMinutes == Rem60(totalMinutesOffset)
  IN datePrefix \o <<" ">> \o PadStart2(NumToStr(intervalHours)) \o <<":">>
       \o PadStart2(NumToStr(intervalMinutes)) \o <<":", "0", "0">>

\* the timestamp of the field at row index i (i >= 2) for interval length L
Timestamp(datePrefix, i, L) ==
  LET totalMinutesOffset == (i - 2) * L
      intervalHours == FloorDiv60(totalMinutesOffset)
      intervalMinutes == Rem60(totalMinutesOffset)
  IN datePrefix \o <<" ">> \o PadStart2(NumToStr(intervalHours)) \o <<":">>
       \o PadStart2(NumToStr(intervalMinutes)) \o <<":", "0", "0">>

\* the for loop over the consumption fields, from row index i on
RECURSIVE EmitFrom(_, _, _, _)
EmitFrom(row, i, ctx, datePrefix) ==
  IF i >= Len(row) THEN <<>>
  ELSE LET consumption == parseFloat(At(row, i))
       IN (IF ~isNaN(consumption)
           THEN <<[nmi |-> ctx.currentNMI,
                   timestamp |-> Timestamp(datePrefix, i, ctx.intervalLength.val),
                   consumption |-> consumption]>>
           ELSE <<>>)
          \o EmitFrom(row, i + 1, ctx, datePrefix)

\* After200 keeping the interval length of the previous block when the
\* new one does not parse
After200Merging(ctx, row) ==
  IF At(row, 0) = T200
  THEN [currentNMI |-> At(row, 1),
        intervalLength |-> IF parseInt(At(row, 8)).nan THEN ctx.intervalLength
                           ELSE parseInt(At(row, 8))]
  ELSE ctx

\* the context after the "200" branch of the loop body
After200(ctx, row) ==
  IF At(row, 0) = T200
  THEN [currentNMI |-> At(row, 1), intervalLength |-> parseInt(At(row, 8))]
  ELSE ctx

\* Eligible without the test of the context
EligibleWithoutContext(ctx, row) == At(row, 0) = T300

\* Eligible as the else branch of the "200" test
EligibleUnless200(ctx, row) ==
  At(row, 0) # T200 /\ Truthy(ctx.currentNMI) /\ TruthyNum(ctx.intervalLength)

\* the condition of the "300" branch
Eligible(ctx, row) ==
  At(row, 0) = T300 /\ Truthy(ctx.currentNMI) /\ TruthyNum(ctx.intervalLength)

\* the body of chunkRows.forEach for one row: the context after it, the
\* records it appends, and whether it raised (dateStr.slice on undefined
\* is a TypeError)
ProcessRow(ctx, row) ==
  LET ctx1 == After200(ctx, row)
  IN IF ~Eligible(ctx1, row)
     THEN [ctx |-> ctx1, out |-> <<>>, threw |-> FALSE]
     ELSE IF At(row, 1) = Undefined
     THEN [ctx |-> ctx1, out |-> <<>>, threw |-> TRUE]
     ELSE [ctx |-> ctx1,
           out |-> EmitFrom(row, 2, ctx1, DatePrefix(At(row, 1))),
           threw |-> FALSE]

\* chunkRows.forEach over a non-empty batch: an exception ends the loop.
\* reached counts the rows the loop reached; row, before and rowOut
\* describe the last of them.
RECURSIVE ForEach(_, _)
ForEach(ctx, rows) ==
  LET r == ProcessRow(ctx, Head(rows))
  IN IF r.threw \/ Len(rows) = 1
     THEN [ctx |-> r.ctx, out |-> r.out, threw |-> r.threw, reached |-> 1,
           row |-> Head(rows), before |-> ctx, rowOut |-> r.out]
     ELSE LET rest == ForEach(r.ctx, Tail(rows))
          IN [rest EXCEPT !.out = r.out \o rest.out, !.reached = rest.reached + 1]

----------------------------------------------------------------------------
(* The SQL text of onCopy *)

RECURSIVE Zeros(_)
Zeros(n) == IF n <= 0 THEN <<>> ELSE <<"0">> \o Zeros(n - 1)

\* String(x) for a number x, as a template literal converts it
\* (Number::toString, radix 10): with the digits s of the mantissa, k of
\* them, and the decimal point after digit n
NumberToString(x) ==
  IF x.kind = "NaN" THEN <<"N", "a", "N">>
  ELSE IF x.kind = "Infinity"
    THEN (IF x.neg THEN <<"-">> ELSE <<>>) \o InfinityText
  ELSE IF x.mant = 0 THEN <<"0">>
  ELSE LET s == NatToStr(x.mant)
           k == Len(s)
           n == k + x.exp
           e == n - 1
           text ==
             IF k <= n /\ n <= 21 THEN s \o Zeros(n - k)
             ELSE IF 0 < n /\ n <= 21
               THEN SubSeq(s, 1, n) \o <<".">> \o SubSeq(s, n + 1, k)
             ELSE IF -6 < n /\ n <= 0 THEN <<"0", ".">> \o Zeros(-n) \o s
             ELSE (IF k = 1 THEN s ELSE <<Head(s), ".">> \o Tail(s))
                    \o <<"e">> \o (IF e < 0 THEN <<"-">> ELSE <<"+">>)
                    \o NatToStr(IF e < 0 THEN -e ELSE e)
       IN (IF x.neg THEN <<"-">> ELSE <<>>) \o text

InsertHead == <<"I", "N", "S", "E", "R", "T", " ", "I", "N", "T", "O", " ", "m", "e", "t", "e", "r", "_", "r", "e", "a", "d", "i", "n", "g", "s", " ", "(", "n", "m", "i", ",", " ", "\"", "t", "i", "m", "e", "s", "t", "a", "m", "p", "\"", ",", " ", "c", "o", "n", "s", "u", "m", "p", "t", "i", "o", "n", ")", " ", "V", "A", "L", "U", "E", "S", " ", "(", "'">>

\* s with every single quote doubled
RECURSIVE Escaped(_)
Escaped(s) ==
  IF s = <<>> THEN <<>>
  ELSE (IF Head(s) = "'" THEN <<"'", "'">> ELSE <<Head(s)>>) \o Escaped(Tail(s))

\* InsertStatement quoting the text fields as SQL literals
InsertStatementEscaping(record) ==
  InsertHead \o Escaped(ToStr(record.nmi)) \o <<"'", ",", " ", "'">>
    \o Escaped(ToStr(record.timestamp)) \o <<"'", ",", " ">>
    \o NumberToString(record.consumption) \o <<")", ";">>

\* the template literal of records.map: one statement of one record
InsertStatement(record) ==
  InsertHead \o ToStr(record.nmi) \o <<"'", ",", " ", "'">>
    \o ToStr(record.timestamp) \o <<"'", ",", " ">>
    \o NumberToString(record.consumption) \o <<")", ";">>

\* strs.join(sep)
RECURSIVE Join(_, _)
Join(strs, sep) ==
  IF strs = <<>> THEN <<>>
  ELSE IF Len(strs) = 1 THEN strs[1]
  ELSE strs[1] \o sep \o Join(Tail(strs), sep)

\* generatedSql = records.map(...), then generatedSql.join("\n")
GeneratedSql(recs) == [i \in 1..Len(recs) |-> InsertStatement(recs[i])]

ClipboardText(recs) == Join(GeneratedSql(recs), <<"\n">>)

----------------------------------------------------------------------------
(* The inputs *)

NoFile == "null"

Files == {"a.csv"}

\* err.message of the failure the Chunk Source signals
Messages == {<<"b", "a", "d">>, <<>>}

N1 == <<"N", "1">>

\* an NMI with a single quote in it
N2 == <<"N", "'", "2">>

D1 == <<"2", "0", "2", "3", "0", "1", "0", "1">>

\* a date field of six characters
D2 == <<"2", "0", "2", "3", "0", "2">>

Row200(nmi, len) == <<T200, nmi, <<>>, <<>>, <<>>, <<>>, <<>>, <<>>, len>>

Valid200A == Row200(N1, <<"3", "0">>)

Valid200B == Row200(N2, <<"4", "5">>)

Rows200 ==
  { Valid200A, Valid200B,
    Row200(N1, <<"-", "3", "0">>),
    Row200(N1, <<"a", "b", "c">>),
    Row200(N1, <<"0">>),
    Row200(<<>>, <<"3", "0">>),
    <<T200>> }

Data300 == <<T300, D1, <<"1", "0", ".", "5">>, <<"x">>, <<"1", "1", ".", "5">>>>

Rows300 ==
  { Data300,
    <<T300, D2, <<"I", "n", "f", "i", "n", "i", "t", "y">>, <<"-", "I", "n", "f", "i", "n", "i", "t", "y">>>>,
    <<T300>> }

\* rows of other record types: "900", "3000", and an empty line
RowsOther ==
  { <<<<"9", "0", "0">>, D1, <<"1", "0", ".", "5">>>>,
    <<<<"3", "0", "0", "0">>, D1, <<"1", "0", ".", "5">>>>,
    <<<<>>>> }

Rows == Rows200 \cup Rows300 \cup RowsOther

Simple300 == <<T300, D1, <<"1", "0", ".", "5">>>>

\* the rows of the runs of the whole component
FewRows == { Valid200A, Simple300 }

\* the non-empty batches of at most MaxBatch rows
BatchesOf(rows) == UNION { [1..n -> rows] : n \in 1..MaxBatch }

\* the batches the runs of the whole component receive
FewBatches == BatchesOf(FewRows)

\* the batches of one run: every row alone, and the batches of FewRows
Batches == { <<row>> : row \in Rows } \cup FewBatches

\* the rows of the run whose batches are split: two "200" rows, a "300"
\* row with one value, and a "300" row with no other field
SplitRows == { Valid200A, Valid200B, Simple300, <<T300>> }

SplitBatches == BatchesOf(SplitRows)

\* a "300" row of 49 consumption fields, the last of them the only number
Late300 == <<T300, D1>> \o [i \in 1..48 |-> <<>>] \o <<<<"1">>>>

\* the rows of the run whose rows go past the end of the day
DayRows == { Valid200A, Valid200B, Data300, Late300 }

ErrorPrefix == <<"E", "r", "r", "o", "r", " ", "p", "a", "r", "s", "i", "n", "g", " ", "C", "S", "V", " ", "f", "i", "l", "e", ":", " ">>

----------------------------------------------------------------------------
(* History of a run, kept beside the program's state: whether the run has  *)
(* reached a "200" row, whether emission is switched off by a "200" row    *)
(* with a bad interval length, and how many records the run has appended.  *)

NonEmptyNMI(row) == At(row, 1) # Undefined /\ At(row, 1) # <<>>

PositiveLength(row) == ~parseInt(At(row, 8)).nan /\ parseInt(At(row, 8)).val > 0

\* the interval-length field is missing, non-numeric or zero
BadLength(row) == parseInt(At(row, 8)).nan \/ parseInt(At(row, 8)).val = 0

Seen200After(seen, rows) == seen \/ \E i \in 1..Len(rows) : At(rows[i], 0) = T200

RECURSIVE OffAfter(_, _)
OffAfter(off, rows) ==
  IF rows = <<>> THEN off
  ELSE LET row == Head(rows)
       IN OffAfter(IF At(row, 0) # T200 THEN off
                   ELSE IF NonEmptyNMI(row) /\ PositiveLength(row) THEN FALSE
                   ELSE IF BadLength(row) THEN TRUE
                   ELSE off,
                   Tail(rows))

----------------------------------------------------------------------------
(* The component.  runs[r] is the closure of the r-th call of              *)
(* handleFileChange that reached Papa.parse: its status, its ParserContext *)
(* (the let variables currentNMI and intervalLength) and its history.      *)
(* last is a history variable: the operation that made the last step; for  *)
(* a chunk callback, the last row its loop reached, the context and the    *)
(* history that row met, the records that row appended, the number of      *)
(* records the whole batch appended and whether the callback raised; for a *)
(* complete or error callback, the number of records its run appended and  *)
(* whether it reached a "200" row; for a click on Copy, the text handed to *)
(* navigator.clipboard.writeText, null when it was not called.             *)

Runs == 1..MaxRuns

Idle == [status |-> "idle", ctx |-> EmptyContext, seen200 |-> FALSE, off |-> FALSE, emitted |-> 0]

Started == [Idle EXCEPT !.status = "active"]

Ended == [Idle EXCEPT !.status = "done"]

Did(op, r) ==
  [op |-> op, run |-> r, row |-> <<>>, before |-> EmptyContext, seen200 |-> FALSE,
   off |-> FALSE, rowOut |-> <<>>, n |-> 0, threw |-> FALSE, msg |-> <<>>,
   written |-> Null]

Init ==
  /\ records = <<>>
  /\ loading = FALSE
  /\ completed = FALSE
  /\ error = Null
  /\ file = NoFile
  /\ runs = [r \in Runs |-> Idle]
  /\ last = Did("init", 0)

\* onChange of the file input: setFile(event.target.files?.[0] ?? null)
SelectFile(f) ==
  /\ file' = f
  /\ last' = Did("select", 0)
  /\ UNCHANGED <<records, loading, completed, error, runs>>

\* the run a click on Generate starts
NextRun ==
  CHOOSE r \in Runs :
    runs[r].status = "idle" /\ \A q \in 1..(r - 1) : runs[q].status # "idle"

\* Generate with currentNMI and intervalLength shared by the runs: the new
\* run goes on from the context of the run started before it
GenerateSharingContext ==
  /\ file # NoFile
  /\ \E r \in Runs : runs[r].status = "idle"
  /\ error' = Null
  /\ loading' = TRUE
  /\ runs' = [runs EXCEPT ![NextRun] =
                [Started EXCEPT !.ctx = IF NextRun > 1 THEN runs[NextRun - 1].ctx
                                        ELSE EmptyContext]]
  /\ last' = Did("generate", NextRun)
  /\ UNCHANGED <<records, completed, file>>

\* GenerateNoFile resetting the state before it tests the file
GenerateNoFileResetting ==
  /\ file = NoFile
  /\ error' = Null
  /\ loading' = TRUE
  /\ last' = Did("generateNoFile", 0)
  /\ UNCHANGED <<records, completed, file, runs>>

\* handleFileChange with no file selected: if (!file) return
GenerateNoFile ==
  /\ file = NoFile
  /\ last' = Did("generateNoFile", 0)
  /\ UNCHANGED <<records, loading, completed, error, file, runs>>

\* Generate leaving the error of the run before as it is
GenerateKeepingError ==
  /\ file # NoFile
  /\ \E r \in Runs : runs[r].status = "idle"
  /\ loading' = TRUE
  /\ runs' = [runs EXCEPT ![NextRun] = Started]
  /\ last' = Did("generate", NextRun)
  /\ UNCHANGED <<records, completed, error, file>>

\* handleFileChange with a file selected, up to the call of Papa.parse
Generate ==
  /\ file # NoFile
  /\ \E r \in Runs : runs[r].status = "idle"
  /\ error' = Null
  /\ loading' = TRUE
  /\ runs' = [runs EXCEPT ![NextRun] = Started]
  /\ last' = Did("generate", NextRun)
  /\ UNCHANGED <<records, completed, file>>

\* Chunk putting the new records in front of the list
ChunkPrepending(r, batch) ==
  /\ runs[r].status = "active"
  /\ \E res \in {ForEach(runs[r].ctx, batch)} :
        /\ Len(records) + Len(res.out) <= MaxRecords
        /\ records' = res.out \o records
        /\ runs' = [runs EXCEPT ![r] =
                      [status |-> "active",
                       ctx |-> res.ctx,
                       seen200 |-> Seen200After(@.seen200, SubSeq(batch, 1, res.reached)),
                       off |-> OffAfter(@.off, SubSeq(batch, 1, res.reached)),
                       emitted |-> @.emitted + Len(res.out)]]
        /\ last' = [op |-> "chunk", run |-> r, row |-> res.row, before |-> res.before,
                    seen200 |-> Seen200After(runs[r].seen200,
                                             SubSeq(batch, 1, res.reached - 1)),
                    off |-> OffAfter(runs[r].off, SubSeq(batch, 1, res.reached - 1)),
                    rowOut |-> res.rowOut, n |-> Len(res.out), threw |-> res.threw,
                    msg |-> <<>>, written |-> Null]
  /\ UNCHANGED <<loading, completed, error, file>>

\* the chunk callback of run r on a batch of rows
Chunk(r, batch) ==
  /\ runs[r].status = "active"
  /\ \E res \in {ForEach(runs[r].ctx, batch)} :
        /\ Len(records) + Len(res.out) <= MaxRecords
        /\ records' = records \o res.out
        /\ runs' = [runs EXCEPT ![r] =
                      [status |-> "active",
                       ctx |-> res.ctx,
                       seen200 |-> Seen200After(@.seen200, SubSeq(batch, 1, res.reached)),
                       off |-> OffAfter(@.off, SubSeq(batch, 1, res.reached)),
                       emitted |-> @.emitted + Len(res.out)]]
        /\ last' = [op |-> "chunk", run |-> r, row |-> res.row, before |-> res.before,
                    seen200 |-> Seen200After(runs[r].seen200,
                                             SubSeq(batch, 1, res.reached - 1)),
                    off |-> OffAfter(runs[r].off, SubSeq(batch, 1, res.reached - 1)),
                    rowOut |-> res.rowOut, n |-> Len(res.out), threw |-> res.threw,
                    msg |-> <<>>, written |-> Null]
  /\ UNCHANGED <<loading, completed, error, file>>

\* Complete leaving the processing flag set
CompleteKeepingLoading(r) ==
  /\ runs[r].status = "active"
  /\ completed' = TRUE
  /\ runs' = [runs EXCEPT ![r] = Ended]
  /\ last' = [Did("complete", r) EXCEPT !.n = runs[r].emitted,
                                         !.seen200 = runs[r].seen200]
  /\ UNCHANGED <<records, loading, error, file>>

\* the complete callback of run r
Complete(r) ==
  /\ runs[r].status = "active"
  /\ loading' = FALSE
  /\ completed' = TRUE
  /\ runs' = [runs EXCEPT ![r] = Ended]
  /\ last' = [Did("complete", r) EXCEPT !.n = runs[r].emitted,
                                         !.seen200 = runs[r].seen200]
  /\ UNCHANGED <<records, error, file>>

\* Error discarding the records appended so far
ErrorDiscardingRecords(r, m) ==
  /\ runs[r].status = "active"
  /\ error' = ErrorPrefix \o m
  /\ loading' = FALSE
  /\ records' = <<>>
  /\ runs' = [runs EXCEPT ![r] = Ended]
  /\ last' = [Did("error", r) EXCEPT !.n = runs[r].emitted, !.msg = m,
                                      !.seen200 = runs[r].seen200]
  /\ UNCHANGED <<completed, file>>

\* the error callback of run r, err.message = m
Error(r, m) ==
  /\ runs[r].status = "active"
  /\ error' = ErrorPrefix \o m
  /\ loading' = FALSE
  /\ runs' = [runs EXCEPT ![r] = Ended]
  /\ last' = [Did("error", r) EXCEPT !.n = runs[r].emitted, !.msg = m,
                                      !.seen200 = runs[r].seen200]
  /\ UNCHANGED <<records, completed, file>>

\* onCopy, by a click on the Copy button: the button is rendered with the
\* table and is disabled while loading
Copy ==
  /\ Len(records) > 0
  /\ ~loading
  /\ last' = [Did("copy", 0) EXCEPT
                !.written = IF completed THEN ClipboardText(records) ELSE Null]
  /\ UNCHANGED <<records, loading, completed, error, file, runs>>

Next ==
  \/ \E f \in Files \cup {NoFile} : SelectFile(f)
  \/ GenerateNoFile
  \/ Generate
  \/ \E r \in Runs, batch \in FewBatches : Chunk(r, batch)
  \/ \E r \in Runs : Complete(r)
  \/ \E r \in Runs, m \in Messages : Error(r, m)
  \/ Copy

Spec == Init /\ [][Next]_vars

\* Papa.parse ends every parse it began by one call of complete or of
\* error: the end of a started run is not put off for ever
SpecLive ==
  Spec /\ \A r \in Runs : WF_vars(Complete(r) \/ \E m \in Messages : Error(r, m))

\* what the render shows
\* the Generate button: disabled={!file}
GenerateEnabled == file # NoFile

ProcessingShown == loading

ErrorShown == error # Null /\ error # <<>>

TableShown == Len(records) > 0

\* the count in the heading "Generated SQL ({records.length} statements)"
StatementsCount == Len(records)

(* One parse run, on every row of Rows: the state after a file was selected *)
(* and Generate clicked once, then the callbacks of that run.              *)

InitRun ==
  /\ records = <<>>
  /\ loading = TRUE
  /\ completed = FALSE
  /\ error = Null
  /\ file \in Files
  /\ runs = [r \in Runs |-> IF r = 1 THEN Started ELSE Idle]
  /\ last = Did("generate", 1)

NextOfRun ==
  \/ \E batch \in Batches : Chunk(1, batch)
  \/ Complete(1)
  \/ \E m \in Messages : Error(1, m)
  \/ Copy

SpecRun == InitRun /\ [][NextOfRun]_vars

(* One parse run whose Chunk Source groups the rows of SplitRows into     *)
(* batches in every way.                                                  *)

NextSplit ==
  \/ \E batch \in SplitBatches : Chunk(1, batch)
  \/ Complete(1)
  \/ \E m \in Messages : Error(1, m)

SpecSplit == InitRun /\ [][NextSplit]_vars

(* One parse run on the rows of DayRows, each in a batch of its own.       *)

NextDay ==
  \/ \E row \in DayRows : Chunk(1, <<row>>)
  \/ Complete(1)
  \/ \E m \in Messages : Error(1, m)

SpecDay == InitRun /\ [][NextDay]_vars

----------------------------------------------------------------------------
(* Properties *)

Is200(row) == At(row, 0) = T200

Is300(row) == At(row, 0) = T300

\* a context with a non-empty NMI and a positive interval length
ContextValid(c) ==
  /\ c.currentNMI # Undefined
  /\ c.currentNMI # <<>>
  /\ ~c.intervalLength.nan
  /\ c.intervalLength.val > 0

\* the 0-based positions, among the consumption fields of a "300" row, of
\* the fields that parse as numbers
NumericPositions(row) ==
  { i \in 0..(Len(row) - 3) : parseFloat(row[i + 3]).kind # "NaN" }

\* the j-th of them, in field order
PositionOf(row, j) ==
  CHOOSE p \in NumericPositions(row) :
    Cardinality({ q \in NumericPositions(row) : q < p }) = j - 1

\* n in 0..99 written with two digits
TwoDigits(n) == <<DigitChar(n \div 10), DigitChar(n % 10)>>

\* the record of the consumption field at position i of a "300" row met
\* under context c: the date of the row at floor(i*L/60) hours and
\* (i*L mod 60) minutes
ExpectedRecord(row, c, i) ==
  [nmi |-> c.currentNMI,
   timestamp |-> DatePrefix(row[2]) \o <<" ">>
                   \o TwoDigits((i * c.intervalLength.val) \div 60) \o <<":">>
                   \o TwoDigits((i * c.intervalLength.val) % 60) \o <<":", "0", "0">>,
   consumption |-> parseFloat(row[i + 3])]

\* C1: a "300" row met under a context that lacks a non-empty NMI or a
\* positive interval length appends nothing and raises nothing.
C1_DroppedUnlessPositive ==
  (last.op = "chunk" /\ Is300(last.row) /\ ~ContextValid(last.before))
    => (last.rowOut = <<>> /\ ~last.threw)

\* C2: a "300" row with a date, met under a valid context, appends one
\* record per field that parses as a number, in field order, and the record
\* of the field at position i has the current NMI, the parsed value and the
\* timestamp of position i, whatever fields before it were skipped.
C2_OneRecordPerNumericField ==
  (last.op = "chunk" /\ Is300(last.row) /\ Len(last.row) >= 2
     /\ ContextValid(last.before))
    => /\ Len(last.rowOut) = Cardinality(NumericPositions(last.row))
       /\ Len(last.rowOut) <= Len(last.row) - 2
       /\ \A j \in 1..Len(last.rowOut) :
            last.rowOut[j] =
              ExpectedRecord(last.row, last.before, PositionOf(last.row, j))

\* a row with a non-numeric field between two numeric ones was expanded:
\* two records, the second one at position 2 (01:00 for 30 minutes)
C2_Witness ==
  /\ last.op = "chunk"
  /\ last.row = Data300
  /\ last.before = [currentNMI |-> N1, intervalLength |-> IntOf(30)]
  /\ Len(last.rowOut) = 2
  /\ last.rowOut[2].timestamp = <<"2", "0", "2", "3", "-", "0", "1", "-", "0", "1", " ", "0", "1", ":", "0", "0", ":", "0", "0">>
  /\ Len(records) >= 2

\* C3: the chunk callback never raises.
C3_ChunkNeverRaises == last.op = "chunk" => ~last.threw

\* C4: a failure with message m leaves the error text "Error parsing CSV
\* file: " followed by m, the processing flag cleared and the list of records
\* as it was.
C4_ErrorKeepsRecords ==
  [][last'.op = "error"
       => /\ error' = <<"E", "r", "r", "o", "r", " ", "p", "a", "r", "s", "i", "n", "g", " ", "C", "S", "V", " ", "f", "i", "l", "e", ":", " ">> \o last'.msg
          /\ loading' = FALSE
          /\ records' = records]_vars

\* a failure signalled after records were appended
C4_Witness ==
  /\ last.op = "error"
  /\ last.msg = <<"b", "a", "d">>
  /\ last.n > 0
  /\ Len(records) > 0
  /\ ~loading

\* C5: after a failure the error message is shown and no results table is.
C5_ErroredShowsNoTable == last.op = "error" => (ErrorShown /\ ~TableShown)

\* C6: a run starts with the empty context, a step of one run leaves the
\* context of every other run alone, and a batch of a run that has reached
\* no "200" row appends nothing, whatever the other runs have seen.
C6_RunOwnsItsContext ==
  [][/\ last'.op = "generate"
          => /\ runs'[last'.run].ctx = EmptyContext
             /\ \A q \in Runs \ {last'.run} : runs'[q] = runs[q]
     /\ last'.op = "chunk"
          => /\ \A q \in Runs \ {last'.run} : runs'[q] = runs[q]
             /\ ~runs'[last'.run].seen200 => records' = records]_vars

\* a "300" row of a run that has reached no "200" row appended nothing
\* while another run in progress holds a valid context
C6_Witness ==
  /\ last.op = "chunk"
  /\ last.row = Simple300
  /\ last.n = 0
  /\ ~runs[last.run].seen200
  /\ \E q \in Runs \ {last.run} :
       runs[q].status = "active" /\ runs[q].seen200 /\ ContextValid(runs[q].ctx)

\* C7: when a run that appended no record completes, no results table and
\* no error message are shown.
C7_EmptyRunShowsNothing ==
  (last.op = "complete" /\ last.n = 0) => (~TableShown /\ ~ErrorShown)

\* C8: every record of the results list has a finite consumption.
C8_ConsumptionFinite ==
  \A i \in 1..Len(records) : records[i].consumption.kind = "finite"

\* C9: after a "200" row with a missing, non-numeric or zero interval
\* length, a "300" row appends nothing as long as no "200" row with a
\* non-empty NMI and a positive interval length was met; a "300" row met
\* right under a valid context appends its numeric fields.
C9_BadLengthDisablesEmission ==
  (last.op = "chunk" /\ Is300(last.row))
    => /\ last.off => last.rowOut = <<>>
       /\ (~last.off /\ ContextValid(last.before) /\ Len(last.row) >= 2)
            => Len(last.rowOut) = Cardinality(NumericPositions(last.row))

\* C10: a "200" row leaves the context holding its own field 1 and the
\* integer parse of its field 8; the records a later "300" row appends carry
\* that NMI and interval length, and go after the records already in the
\* list, which stay as they were.
C10_Row200Overwrites ==
  [][last'.op = "chunk"
       => /\ Len(records') = Len(records) + last'.n
          /\ SubSeq(records', 1, Len(records)) = records
          /\ SubSeq(records', Len(records') - Len(last'.rowOut) + 1, Len(records'))
               = last'.rowOut
          /\ Is200(last'.row)
               => runs'[last'.run].ctx =
                    [currentNMI |-> At(last'.row, 1),
                     intervalLength |-> parseInt(At(last'.row, 8))]
          /\ Is300(last'.row)
               => \A j \in 1..Len(last'.rowOut) :
                    /\ last'.rowOut[j].nmi = last'.before.currentNMI
                    /\ ContextValid(last'.before)
                         => last'.rowOut[j] =
                              ExpectedRecord(last'.row, last'.before,
                                             PositionOf(last'.row, j))]_vars

\* records of N1 at 30 minutes are followed by records of N2 at 45 minutes
C10_Witness ==
  /\ last.op = "chunk"
  /\ last.before = [currentNMI |-> N2, intervalLength |-> IntOf(45)]
  /\ Len(records) = 4
  /\ records[1].nmi = N1
  /\ records[2].timestamp = <<"2", "0", "2", "3", "-", "0", "1", "-", "0", "1", " ", "0", "1", ":", "0", "0", ":", "0", "0">>
  /\ records[3].nmi = N2
  /\ records[4].timestamp = <<"2", "0", "2", "3", "-", "0", "1", "-", "0", "1", " ", "0", "1", ":", "3", "0", ":", "0", "0">>

\* C11: a "300" row that a run processes before any "200" row appends no
\* record and raises nothing, a batch with no "200" row in or before it
\* appends none, and the run that completes without a "200" row completes
\* with no error, no record and the processing flag cleared.
C11_No200NoRecord ==
  /\ (last.op = "chunk" /\ Is300(last.row) /\ ~last.seen200)
       => (last.rowOut = <<>> /\ ~last.threw)
  /\ (last.op = "chunk" /\ ~runs[last.run].seen200)
       => (last.n = 0 /\ ~last.threw /\ records = <<>>)
  /\ (last.op = "complete" /\ ~last.seen200)
       => (last.n = 0 /\ records = <<>> /\ error = Null /\ completed /\ ~loading)

C11_Witness ==
  /\ last.op = "chunk"
  /\ last.row = Data300
  /\ ~last.seen200
  /\ last.before = EmptyContext
  /\ records = <<>>

IsOther(row) == ~Is200(row) /\ ~Is300(row)

\* C12: a chunk callback whose row has a first field that is neither "200"
\* nor "300" leaves currentNMI, intervalLength and the results list as they
\* were, appends nothing and raises nothing.
C12_OtherRowChangesNothing ==
  [][(last'.op = "chunk" /\ IsOther(last'.row))
       => /\ runs'[last'.run].ctx = runs[last'.run].ctx
          /\ runs'[last'.run].ctx = last'.before
          /\ records' = records
          /\ last'.rowOut = <<>>
          /\ last'.n = 0
          /\ ~last'.threw]_vars

C12_Witness ==
  /\ last.op = "chunk"
  /\ last.row \in RowsOther
  /\ Len(last.row) = 3
  /\ ContextValid(last.before)
  /\ Len(records) > 0

TenPointFive == parseFloat(<<"1", "0", ".", "5">>)

ElevenPointFive == parseFloat(<<"1", "1", ".", "5">>)

\* C13: every step keeps the results list as a prefix of the new one; a
\* chunk callback appends the records of its batch at the end, those of the
\* last row it reached last, and the records of a row are in the order of
\* its fields, left to right; no other step changes the list.
C13_AppendOnlyInOrder ==
  [][/\ Len(records') >= Len(records)
     /\ SubSeq(records', 1, Len(records)) = records
     /\ last'.op # "chunk" => records' = records
     /\ last'.op = "chunk" =>
          /\ Len(records') = Len(records) + last'.n
          /\ Len(last'.rowOut) <= last'.n
          /\ SubSeq(records', Len(records') - Len(last'.rowOut) + 1, Len(records'))
               = last'.rowOut
          /\ Len(last'.rowOut) <= Cardinality(NumericPositions(last'.row))
          /\ \A j \in 1..Len(last'.rowOut) :
               last'.rowOut[j].consumption
                 = parseFloat(last'.row[PositionOf(last'.row, j) + 3])]_vars

\* three records of two batches, in the order the rows came
C13_Witness ==
  /\ last.op = "chunk"
  /\ last.row = Simple300
  /\ last.n = 1
  /\ Len(records) = 3
  /\ records[1].consumption = TenPointFive
  /\ records[2].consumption = ElevenPointFive
  /\ records[3].consumption = TenPointFive

\* C14: a click on Copy, which needs the table shown and the button enabled,
\* hands to the clipboard the INSERT statements of the records now in the
\* list, one per record, in list order, joined by newlines.
C14_CopyWritesTheList ==
  last.op = "copy"
    => /\ last.written # Null
       /\ last.written = ClipboardText(records)

\* C15: when a run completes and the table is shown, the count of
\* statements in its heading is the number of records that run appended.
C15_CountIsOfTheRun ==
  (last.op = "complete" /\ TableShown) => StatementsCount = last.n

\* the lines of a text: its pieces between newlines
RECURSIVE SplitLines(_)
SplitLines(text) ==
  IF \A i \in 1..Len(text) : text[i] # "\n" THEN <<text>>
  ELSE LET p == CHOOSE i \in 1..Len(text) :
                  text[i] = "\n" /\ \A j \in 1..(i - 1) : text[j] # "\n"
       IN <<SubSeq(text, 1, p - 1)>> \o SplitLines(SubSeq(text, p + 1, Len(text)))

SqlOpening == <<"I", "N", "S", "E", "R", "T", " ", "I", "N", "T", "O", " ", "m", "e", "t", "e", "r", "_", "r", "e", "a", "d", "i", "n", "g", "s", " ", "(", "n", "m", "i", ",", " ", "\"", "t", "i", "m", "e", "s", "t", "a", "m", "p", "\"", ",", " ", "c", "o", "n", "s", "u", "m", "p", "t", "i", "o", "n", ")", " ", "V", "A", "L", "U", "E", "S", " ", "(", "'">>

\* line is the statement of record rec: the opening, the NMI and the
\* timestamp as they are between single quotes, then a numeric literal
\* that reads back as the consumption
IsStatementOf(line, rec) ==
  LET front == SqlOpening \o rec.nmi \o <<"'", ",", " ", "'">> \o rec.timestamp
                 \o <<"'", ",", " ">>
      literal == SubSeq(line, Len(front) + 1, Len(line) - 2)
  IN /\ Len(line) > Len(front) + 2
     /\ SubSeq(line, 1, Len(front)) = front
     /\ SubSeq(line, Len(line) - 1, Len(line)) = <<")", ";">>
     /\ \A i \in 1..Len(literal) : literal[i] \notin {" ", "'", ","}
     /\ parseFloat(literal) = rec.consumption

\* C16: the text a click on Copy writes has one line per record of the
\* list, in list order, and the i-th line is the INSERT statement of the
\* i-th record alone, its NMI and timestamp verbatim.
C16_OneStatementPerRecord ==
  (last.op = "copy" /\ last.written # Null)
    => LET lines == SplitLines(last.written)
       IN /\ Len(lines) = Len(records)
          /\ \A i \in 1..Len(records) : IsStatementOf(lines[i], records[i])

\* two records of an NMI with a single quote in it were copied
C16_Witness ==
  /\ last.op = "copy"
  /\ last.written # Null
  /\ Len(records) = 2
  /\ records[1].nmi = N2
  /\ records[2].consumption = ElevenPointFive

\* C17: the Generate button is disabled at the start and is enabled exactly
\* when a file is selected; a run starts only with the button enabled, and
\* the generate handler called with no file selected starts no run and
\* changes nothing of the state.
C17_GenerateNeedsFile ==
  /\ ~GenerateEnabled
  /\ [][/\ GenerateEnabled' <=> file' \in Files
        /\ file' # file => last'.op = "select"
        /\ runs' # runs /\ last'.op \notin {"chunk", "complete", "error"}
             => GenerateEnabled /\ last'.op = "generate"
        /\ last'.op = "generate"
             => /\ GenerateEnabled
                /\ runs[last'.run].status = "idle"
                /\ runs'[last'.run].status = "active"
        /\ last'.op = "generateNoFile"
             => /\ ~GenerateEnabled
                /\ UNCHANGED <<records, loading, completed, error, file, runs>>]_vars

\* the handler ran with no file selected, after a run had completed and
\* the file had been taken away
C17_Witness ==
  /\ last.op = "generateNoFile"
  /\ file = NoFile
  /\ completed
  /\ ~loading

\* C18: every run that has started comes to its end, and at its end the
\* processing flag is cleared: "Processing..." is not shown then.
C18_RunLeavesProcessing ==
  \A r \in Runs :
    (runs[r].status = "active") ~> (runs[r].status = "done" /\ ~ProcessingShown)

\* a run that appended records has completed and the flag is cleared
C18_Witness ==
  /\ last.op = "complete"
  /\ last.n > 0
  /\ runs[last.run].status = "done"
  /\ ~ProcessingShown

\* the context and the records after the rows are delivered one by one,
\* each in a chunk callback of its own
RECURSIVE OneByOne(_, _)
OneByOne(ctx, rows) ==
  IF rows = <<>> THEN [ctx |-> ctx, out |-> <<>>]
  ELSE LET first == ForEach(ctx, <<Head(rows)>>)
           rest == OneByOne(first.ctx, Tail(rows))
       IN [ctx |-> rest.ctx, out |-> first.out \o rest.out]

\* C19: a batch of rows delivered in one chunk callback appends the records
\* and leaves the context that the same rows delivered one by one append
\* and leave, so that any two groupings of a row sequence into batches end
\* with the same results list and the same context.
C19_BatchingIrrelevant ==
  [][\A batch \in SplitBatches :
       Chunk(1, batch)
         => /\ records' = records \o OneByOne(runs[1].ctx, batch).out
            /\ runs'[1].ctx = OneByOne(runs[1].ctx, batch).ctx]_vars

\* C20: while some run has started and has not yet had its complete or
\* error callback, the processing flag is set: "Processing..." is shown.
C20_ProcessingWhileRunning ==
  (\E r \in Runs : runs[r].status = "active") => ProcessingShown

\* t ends with a time of day hh:mm:00 after a space: two digits of an
\* hour of 0..23, two digits of a minute of 0..59
EndsWithTimeOfDay(t) ==
  LET n == Len(t)
  IN /\ n >= 9
     /\ t[n - 8] = " "
     /\ t[n - 7] \in Digits /\ t[n - 6] \in Digits
     /\ DigitsToNat(<<t[n - 7], t[n - 6]>>) <= 23
     /\ t[n - 5] = ":"
     /\ t[n - 4] \in Digits /\ t[n - 3] \in Digits
     /\ DigitsToNat(<<t[n - 4], t[n - 3]>>) <= 59
     /\ SubSeq(t, n - 2, n) = <<":", "0", "0">>

\* C21: every record of a "300" row met under a non-empty NMI and a
\* positive interval length has a timestamp that is the date of the row, a
\* space, and a time of day: hour 00..23 and minute 00..59, two digits each.
C21_TimeWithinTheDay ==
  (last.op = "chunk" /\ Is300(last.row) /\ Len(last.row) >= 2
     /\ ContextValid(last.before))
    => \A j \in 1..Len(last.rowOut) :
         /\ EndsWithTimeOfDay(last.rowOut[j].timestamp)
         /\ last.rowOut[j].timestamp
              = DatePrefix(last.row[2])
                  \o SubSeq(last.rowOut[j].timestamp,
                            Len(last.rowOut[j].timestamp) - 8,
                            Len(last.rowOut[j].timestamp))

\* C22: in every state a non-null error goes with a cleared processing
\* flag, so the error message and "Processing..." are never shown
\* together, whatever runs overlap; the start of a run sets the error to
\* null, and only an error callback sets it to a message.
C22_ErrorNotWhileProcessing ==
  /\ error = Null
  /\ [][/\ error' # Null => ~loading'
        /\ ~(ErrorShown' /\ ProcessingShown')
        /\ last'.op = "generate" => error' = Null /\ ~ErrorShown' /\ loading'
        /\ error' # error => last'.op \in {"generate", "error"}
        /\ last'.op = "error" => ErrorShown' /\ ~ProcessingShown']_vars

\* the second run has started after the first ended by its error
\* callback: the error is null again
C22_Witness ==
  /\ last.op = "generate"
  /\ last.run = 2
  /\ runs[1].status = "done"
  /\ ~completed
  /\ error = Null
  /\ loading

====
